---- MODULE Spec2Model ----
(***************************************************************************)
(* A model of src/lambda_function.py: the S3-triggered handler that reads  *)
(* a transcript, submits it to a Runpod endpoint, polls the job and stores *)
(* the summary.                                                            *)
(*                                                                         *)
(* Text that the code inspects character by character (bucket names,       *)
(* object keys, transcripts) is a sequence of one-character strings.       *)
(* Text that the code only passes along (summaries, messages, job ids) is  *)
(* a TLA+ string.                                                          *)
(***************************************************************************)
EXTENDS Integers, Sequences, FiniteSets, TLC

VARIABLES
    invs,                  \* the invocations of lambda_handler that are running
    MAX_POLLING_ATTEMPTS,  \* configuration, fixed at process start
    RUNPOD_API_KEY,
    RUNPOD_API_ENDPOINT,
    event,                 \* event[i]: the payload invocation i was called with
    s3_object,             \* s3_object[i]: what storage holds at the place event[i] names
    pc,                    \* pc[i]: the external call invocation i makes next
    bucket_name,
    object_key,
    transcript_text,
    job_id,
    attempt,               \* the loop variable of poll_runpod_job
    summary,
    output_key,
    raised,                \* the exception lambda_handler caught, NoExc when none
    response,              \* what lambda_handler returned
    calls,                 \* calls[i]: the external calls invocation i made, in order
    s3                     \* the objects written by put_object, by <<bucket, key>>

vars == <<invs, MAX_POLLING_ATTEMPTS, RUNPOD_API_KEY, RUNPOD_API_ENDPOINT, event,
          s3_object, pc, bucket_name, object_key, transcript_text, job_id, attempt,
          summary, output_key, raised, response, calls, s3>>

config == <<invs, MAX_POLLING_ATTEMPTS, RUNPOD_API_KEY, RUNPOD_API_ENDPOINT, event,
            s3_object>>

----------------------------------------------------------------------------
(* Bounds of the model *)

MaxAttempts == 4          \* MAX_POLLING_ATTEMPTS ranges over 0..MaxAttempts
MaxTranscriptLen == 2     \* transcripts have at most this many characters
MaxKeyLen == 4            \* keys and bucket names of the string-function checks

(* Program constants *)

POLLING_INTERVAL == 10
DEFAULT_MAX_POLLING_ATTEMPTS == 20
OUTPUT_BUCKET == <<"summaries">>

None == "None"            \* Python's None, where a string may be unset
NoValue == [py |-> "NoneType", v |-> ""]
NoExc == [type |-> "", msg |-> ""]
Exc(t, m) == [type |-> t, msg |-> m]

----------------------------------------------------------------------------
(* Strings *)

RECURSIVE StringsUpTo(_, _)
StringsUpTo(A, n) ==
    IF n = 0 THEN {<<>>}
    ELSE LET S == StringsUpTo(A, n - 1)
         IN S \cup {Append(s, c) : s \in {t \in S : Len(t) = n - 1}, c \in A}

RECURSIVE Concat(_)
Concat(ss) == IF ss = <<>> THEN <<>> ELSE Head(ss) \o Concat(Tail(ss))

Contains(s, c) == \E k \in 1..Len(s) : s[k] = c

\* str.isspace() of one character
IsSpace(c) == c \in {" ", "\n", "\t", "\r"}

RECURSIVE lstrip(_)
lstrip(s) == IF s # <<>> /\ IsSpace(Head(s)) THEN lstrip(Tail(s)) ELSE s

RECURSIVE rstrip(_)
rstrip(s) ==
    IF s # <<>> /\ IsSpace(s[Len(s)]) THEN rstrip(SubSeq(s, 1, Len(s) - 1)) ELSE s

strip_noop(s) == s

\* str.strip()
strip(s) == rstrip(lstrip(s))

\* str.replace(old, new) for one-character old and new
replace(s, old, new) == [k \in 1..Len(s) |-> IF s[k] = old THEN new ELSE s[k]]

\* str.split(sep) for a one-character sep
RECURSIVE split(_, _)
split(s, sep) ==
    IF ~Contains(s, sep) THEN <<s>>
    ELSE LET k == CHOOSE k \in 1..Len(s) : s[k] = sep /\ \A j \in 1..(k - 1) : s[j] # sep
         IN <<SubSeq(s, 1, k - 1)>> \o split(SubSeq(s, k + 1, Len(s)), sep)

\* str.rsplit(sep, 1)[0] for a one-character sep
rsplit1_head(s, sep) ==
    IF ~Contains(s, sep) THEN s
    ELSE LET k == CHOOSE k \in 1..Len(s) : s[k] = sep /\ \A j \in (k + 1)..Len(s) : s[j] # sep
         IN SubSeq(s, 1, k - 1)

----------------------------------------------------------------------------
(* urllib.parse.unquote_plus *)

HexDigits == <<"0", "1", "2", "3", "4", "5", "6", "7", "8", "9",
               "A", "B", "C", "D", "E", "F">>
LowerHex == <<"0", "1", "2", "3", "4", "5", "6", "7", "8", "9",
              "a", "b", "c", "d", "e", "f">>

IsHex(c) == \E k \in 1..16 : HexDigits[k] = c \/ LowerHex[k] = c

HexVal(c) == (CHOOSE k \in 1..16 : HexDigits[k] = c \/ LowerHex[k] = c) - 1

\* The printable ASCII characters, 32..126 (the double quote, the backslash
\* and the backtick are written as the tokens QUOTE, BACKSLASH and BACKTICK)
Printable ==
    <<" ", "!", "QUOTE", "#", "$", "%", "&", "'", "(", ")", "*", "+", ",", "-", ".", "/",
      "0", "1", "2", "3", "4", "5", "6", "7", "8", "9", ":", ";", "<", "=", ">", "?",
      "@", "A", "B", "C", "D", "E", "F", "G", "H", "I", "J", "K", "L", "M", "N", "O",
      "P", "Q", "R", "S", "T", "U", "V", "W", "X", "Y", "Z", "[", "BACKSLASH", "]", "^", "_",
      "BACKTICK", "a", "b", "c", "d", "e", "f", "g", "h", "i", "j", "k", "l", "m", "n", "o",
      "p", "q", "r", "s", "t", "u", "v", "w", "x", "y", "z", "{", "|", "}", "~">>

\* One decoded byte as text: bytes.decode('utf-8', 'replace') of a byte that
\* stands alone. A byte of 0x80..0xBF starts no UTF-8 sequence and is replaced.
DecodeByte(n) ==
    IF n \in 32..126 THEN Printable[n - 31]
    ELSE IF n >= 128 THEN "U+FFFD"
    ELSE "CTRL-" \o ToString(n)

\* One item of string.split('%')[1:]: the two hex digits decoded, or the item
\* kept behind its '%'
unquote_item(item) ==
    IF Len(item) >= 2 /\ IsHex(item[1]) /\ IsHex(item[2])
    THEN <<DecodeByte(16 * HexVal(item[1]) + HexVal(item[2]))>> \o SubSeq(item, 3, Len(item))
    ELSE <<"%">> \o item

unquote(s) ==
    IF ~Contains(s, "%") THEN s
    ELSE LET bits == split(s, "%")
         IN bits[1] \o Concat([k \in 1..(Len(bits) - 1) |-> unquote_item(bits[k + 1])])

unquote_only(s) == unquote(s)

unquote_plus(s) == unquote(replace(s, "+", " "))

----------------------------------------------------------------------------
(* The event payload.                                                      *)
(*   records: what event['Records'] is: "no_event" (the event itself is    *)
(*            null), "absent", "null", "number", "str" (an empty string),  *)
(*            "dict" (an empty mapping) or "list"                          *)
(*   list:    the records, when records = "list"                           *)
(* A record's form is "ok" (s3.bucket.name and s3.object.key are strings), *)
(* "null" (the record is null), "no_s3" or "no_key" (the field is missing) *)

Record(form, b, k) == [form |-> form, bucket |-> b, key |-> k]
Event(records, list) == [records |-> records, list |-> list]

\* What the try body of parse_s3_event raises, NoExc when it runs through
parse_raises(ev) ==
    CASE ev.records = "no_event" -> Exc("TypeError", "'NoneType' object is not subscriptable")
      [] ev.records = "absent" -> Exc("KeyError", "'Records'")
      [] ev.records = "null" -> Exc("TypeError", "'NoneType' object is not subscriptable")
      [] ev.records = "number" -> Exc("TypeError", "'int' object is not subscriptable")
      [] ev.records = "str" -> Exc("IndexError", "string index out of range")
      [] ev.records = "dict" -> Exc("KeyError", "0")
      [] ev.records = "list" /\ ev.list = <<>> -> Exc("IndexError", "list index out of range")
      [] OTHER ->
            CASE ev.list[1].form = "null" ->
                    Exc("TypeError", "'NoneType' object is not subscriptable")
              [] ev.list[1].form = "no_s3" -> Exc("KeyError", "'s3'")
              [] ev.list[1].form = "no_key" -> Exc("KeyError", "'key'")
              [] OTHER -> NoExc

\* except (KeyError, IndexError)
parse_catches(e) == e.type \in {"KeyError", "IndexError"}

parse_s3_event(ev) ==
    LET e == parse_raises(ev)
    IN IF e = NoExc
       THEN [exc |-> NoExc, bucket |-> ev.list[1].bucket,
             key |-> unquote_plus(ev.list[1].key)]
       ELSE [exc |-> IF parse_catches(e)
                     THEN Exc("ValueError", "Invalid S3 event format: " \o e.msg)
                     ELSE e,
             bucket |-> <<>>, key |-> <<>>]

----------------------------------------------------------------------------
(* generate_output_key *)

Prefix == <<"summaries/">>
Suffix == <<"_summary.txt">>

generate_output_key(input_key) ==
    LET base_name == IF Contains(input_key, ".") THEN rsplit1_head(input_key, ".")
                     ELSE input_key
    IN Prefix \o base_name \o Suffix

\* f"s3://{bucket}/{key}"
S3Uri(bucket, key) == <<"s3://">> \o bucket \o <<"/">> \o key

----------------------------------------------------------------------------
(* The status response of the job API.                                     *)
(*   status: a string, or Absent when the response has no status field     *)
(*   output: its shape and, where it holds one, its text                   *)
(*   error:  a string, or Absent                                           *)

Absent == "<absent>"

Output(shape, text) == [shape |-> shape, text |-> text]
StatusResponse(status, output, error) ==
    [status |-> status, output |-> output, error |-> error]

PyStr(t) == [py |-> "str", v |-> t]
PyInt(t) == [py |-> "int", v |-> t]

\* json.dumps(output) of the outputs that hold no text
json_dumps(output) ==
    CASE output.shape = "absent" -> "{}"
      [] output.shape = "dict_notext" -> "{'tokens': 7}"
      [] output.shape = "null" -> "null"
      [] output.shape = "list" -> "['a']"
      [] OTHER -> "{'text': ...}"

\* result.get("output", {}) and the branches on it
extract_output(output) ==
    CASE output.shape = "dict_text" -> [exc |-> NoExc, value |-> PyStr(output.text)]
      [] output.shape = "dict_text_int" -> [exc |-> NoExc, value |-> PyInt(output.text)]
      [] output.shape = "str" -> [exc |-> NoExc, value |-> PyStr(output.text)]
      [] output.shape \in {"dict_notext", "absent"} ->
            [exc |-> NoExc, value |-> PyStr(json_dumps(output))]
      [] output.shape = "null" ->
            [exc |-> Exc("AttributeError", "'NoneType' object has no attribute 'get'"),
             value |-> NoValue]
      [] OTHER ->
            [exc |-> Exc("AttributeError", "'list' object has no attribute 'get'"),
             value |-> NoValue]

\* COMPLETED falls through to the sleep
poll_step_no_return(result) ==
    LET status == IF result.status = Absent THEN "" ELSE result.status
    IN IF status = "FAILED"
       THEN [next |-> "raise", value |-> NoValue,
             exc |-> Exc("Exception", "Runpod job failed: " \o
                         (IF result.error = Absent THEN "Unknown error" ELSE result.error))]
       ELSE [next |-> "sleep", value |-> NoValue, exc |-> NoExc]

\* FAILED is logged and polled again
poll_step_retry_failed(result) ==
    LET status == IF result.status = Absent THEN "" ELSE result.status
    IN IF status = "COMPLETED"
       THEN LET r == extract_output(result.output)
            IN [next |-> IF r.exc = NoExc THEN "return" ELSE "raise",
                value |-> r.value, exc |-> r.exc]
       ELSE [next |-> "sleep", value |-> NoValue, exc |-> NoExc]

\* One iteration of the loop of poll_runpod_job on a decoded response: return
\* a value, raise, or go on to the sleep
poll_step(result) ==
    LET status == IF result.status = Absent THEN "" ELSE result.status
    IN IF status = "COMPLETED"
       THEN LET r == extract_output(result.output)
            IN [next |-> IF r.exc = NoExc THEN "return" ELSE "raise",
                value |-> r.value, exc |-> r.exc]
       ELSE IF status = "FAILED"
       THEN [next |-> "raise", value |-> NoValue,
             exc |-> Exc("Exception", "Runpod job failed: " \o
                         (IF result.error = Absent THEN "Unknown error" ELSE result.error))]
       ELSE [next |-> "sleep", value |-> NoValue, exc |-> NoExc]

\* range(MAX_POLLING_ATTEMPTS) stops one short
range_has_next_short(n, max) == n + 1 < max

\* range(MAX_POLLING_ATTEMPTS) goes one too far
range_has_next_over(n, max) == n <= max

\* for attempt in range(MAX_POLLING_ATTEMPTS)
range_has_next(n, max) == n < max

----------------------------------------------------------------------------
(* The response envelopes of lambda_handler *)

NoResponse ==
    [statusCode |-> 0, message |-> "", input_file |-> <<>>, output_file |-> <<>>,
     error |-> ""]

error_response_generic(e) ==
    [statusCode |-> 500, message |-> "Error processing file", input_file |-> <<>>,
     output_file |-> <<>>, error |-> "Internal error"]

\* The exception leaves lambda_handler: no envelope is returned
error_response_escapes(e) == NoResponse

\* except Exception as e: the 500 envelope with str(e)
error_response(e) ==
    [statusCode |-> 500, message |-> "Error processing file", input_file |-> <<>>,
     output_file |-> <<>>, error |-> e.msg]

success_response(bucket, key, out_key) ==
    [statusCode |-> 200, message |-> "Summary generated successfully",
     input_file |-> S3Uri(bucket, key), output_file |-> S3Uri(OUTPUT_BUCKET, out_key),
     error |-> ""]

\* summary.encode('utf-8')
utf8_encode(text) == [encoding |-> "utf-8", text |-> text]

upload_call_input_bucket(text, bucket, key) ==
    [op |-> "put", bucket |-> bucket, key |-> generate_output_key(key),
     body |-> utf8_encode(text), content_type |-> "text/plain"]

\* generate_output_key(object_key) and the put_object that
\* upload_summary_to_s3(summary, OUTPUT_BUCKET, output_key) issues
upload_call(text, bucket, key) ==
    [op |-> "put", bucket |-> OUTPUT_BUCKET, key |-> generate_output_key(key),
     body |-> utf8_encode(text), content_type |-> "text/plain"]

----------------------------------------------------------------------------
(* The environment: what storage holds and what the job API answers *)

Invocations == {1, 2}     \* the names an invocation may have

Texts == {"X", "Y"}
JobIds == {"job-1", "job-2"}

Transcripts == StringsUpTo({"a", " ", "\n"}, MaxTranscriptLen)

Objects ==
    {[state |-> "ok", body |-> t] : t \in Transcripts}
        \cup {[state |-> st, body |-> <<>>] : st \in {"NoSuchKey", "not_utf8"}}

Outputs ==
    {Output(sh, t) : sh \in {"dict_text", "str"}, t \in Texts}
        \cup {Output("dict_text_int", "42")}
        \cup {Output(sh, "") : sh \in {"dict_notext", "absent", "null", "list"}}

NoOutput == Output("absent", "")

StatusResponses ==
    {StatusResponse("COMPLETED", o, Absent) : o \in Outputs}
        \cup {StatusResponse("FAILED", NoOutput, e) : e \in {Absent, "boom"}}
        \cup {StatusResponse(st, NoOutput, Absent) : st \in {"IN_PROGRESS", Absent}}

\* What requests.get, raise_for_status and response.json() come to: a decoded
\* response, or a RequestException
StatusReplies ==
    {[http |-> "ok", result |-> r] : r \in StatusResponses}
        \cup {[http |-> "RequestException", result |-> StatusResponse(Absent, NoOutput, Absent)]}

\* What requests.post, raise_for_status and response.json() come to
SubmitReplies ==
    {[http |-> "ok", id |-> j] : j \in JobIds}
        \cup {[http |-> "ok", id |-> Absent], [http |-> "RequestException", id |-> Absent]}

----------------------------------------------------------------------------
(* lambda_handler, one action for each external call and what follows it up *)
(* to the next external call or the return                                  *)

Log(i, entry) == calls' = [calls EXCEPT ![i] = Append(@, entry)]

\* except Exception as e: return the 500 envelope
Raise(i, e) ==
    /\ pc' = [pc EXCEPT ![i] = "done"]
    /\ raised' = [raised EXCEPT ![i] = e]
    /\ response' = [response EXCEPT ![i] = error_response(e)]

Goto(i, label) ==
    /\ pc' = [pc EXCEPT ![i] = label]
    /\ UNCHANGED <<raised, response>>

Parse(i) ==
    /\ i \in invs
    /\ pc[i] = "parse"
    /\ LET r == parse_s3_event(event[i])
       IN IF r.exc # NoExc
          THEN Raise(i, r.exc) /\ UNCHANGED <<bucket_name, object_key>>
          ELSE /\ bucket_name' = [bucket_name EXCEPT ![i] = r.bucket]
               /\ object_key' = [object_key EXCEPT ![i] = r.key]
               /\ Goto(i, "fetch")
    /\ UNCHANGED <<config, transcript_text, job_id, attempt, summary, output_key, calls, s3>>

\* s3_client.get_object and the read and decoding of its body. The client
\* refuses an empty bucket name or key before any request is sent; a missing
\* object is a ClientError; a body that is no UTF-8 text fails to decode.
get_object(i) ==
    IF bucket_name[i] = <<>> \/ object_key[i] = <<>>
    THEN [exc |-> Exc("ParamValidationError", "Parameter validation failed"), body |-> <<>>]
    ELSE IF s3_object[i].state = "ok"
    THEN [exc |-> NoExc, body |-> s3_object[i].body]
    ELSE IF s3_object[i].state = "not_utf8"
    THEN [exc |-> Exc("UnicodeDecodeError", "'utf-8' codec can't decode byte"), body |-> <<>>]
    ELSE [exc |-> Exc("ClientError", "An error occurred (NoSuchKey) when calling the GetObject operation"),
          body |-> <<>>]

Fetch(i) ==
    /\ i \in invs
    /\ pc[i] = "fetch"
    /\ LET r == get_object(i)
       IN /\ Log(i, [op |-> "get", bucket |-> bucket_name[i], key |-> object_key[i],
                     out |-> r.exc.type])
          /\ IF r.exc # NoExc
             THEN Raise(i, r.exc) /\ UNCHANGED transcript_text
             ELSE /\ transcript_text' = [transcript_text EXCEPT ![i] = r.body]
                  /\ IF strip(r.body) = <<>>
                     THEN Raise(i, Exc("ValueError", "Transcript file is empty."))
                     ELSE Goto(i, "submit")
    /\ UNCHANGED <<config, bucket_name, object_key, job_id, attempt, summary, output_key, s3>>

\* The request is sent whatever the configuration
Submit_unchecked(i) ==
    /\ i \in invs
    /\ pc[i] = "submit"
    /\ \E reply \in SubmitReplies :
            /\ Log(i, [op |-> "run", url |-> RUNPOD_API_ENDPOINT \o "/run",
                       text |-> transcript_text[i],
                       out |-> IF reply.http # "ok" THEN reply.http
                               ELSE IF reply.id = Absent THEN "no_id" ELSE "id"])
            /\ IF reply.http # "ok"
               THEN Raise(i, Exc("RequestException", "POST /run failed")) /\ UNCHANGED job_id
               ELSE IF reply.id = Absent
               THEN Raise(i, Exc("ValueError", "No job ID returned from Runpod: {}"))
                    /\ UNCHANGED job_id
               ELSE /\ job_id' = [job_id EXCEPT ![i] = reply.id]
                    /\ Goto(i, "poll")
    /\ UNCHANGED <<config, bucket_name, object_key, transcript_text, attempt, summary,
                   output_key, s3>>

\* submit_job_to_runpod
Submit(i) ==
    /\ i \in invs
    /\ pc[i] = "submit"
    /\ IF RUNPOD_API_KEY \in {None, ""}
       THEN Raise(i, Exc("ValueError", "Runpod API key is not set."))
            /\ UNCHANGED <<calls, job_id>>
       ELSE IF RUNPOD_API_ENDPOINT \in {None, ""}
       THEN Raise(i, Exc("ValueError", "Runpod API endpoint is not set."))
            /\ UNCHANGED <<calls, job_id>>
       ELSE \E reply \in SubmitReplies :
            /\ Log(i, [op |-> "run", url |-> RUNPOD_API_ENDPOINT \o "/run",
                       text |-> transcript_text[i],
                       out |-> IF reply.http # "ok" THEN reply.http
                               ELSE IF reply.id = Absent THEN "no_id" ELSE "id"])
            /\ IF reply.http # "ok"
               THEN Raise(i, Exc("RequestException", "POST /run failed")) /\ UNCHANGED job_id
               ELSE IF reply.id = Absent
               THEN Raise(i, Exc("ValueError", "No job ID returned from Runpod: {}"))
                    /\ UNCHANGED job_id
               ELSE /\ job_id' = [job_id EXCEPT ![i] = reply.id]
                    /\ Goto(i, "poll")
    /\ UNCHANGED <<config, bucket_name, object_key, transcript_text, attempt, summary,
                   output_key, s3>>

\* The RequestException of a status request is raised out of the loop
PollRequest_reraises(i) ==
    /\ i \in invs
    /\ pc[i] = "poll"
    /\ range_has_next(attempt[i], MAX_POLLING_ATTEMPTS)
    /\ \E reply \in StatusReplies :
        /\ Log(i, [op |-> "status", url |-> RUNPOD_API_ENDPOINT \o "/status/" \o job_id[i],
                   http |-> reply.http, result |-> reply.result])
        /\ IF reply.http # "ok"
           THEN Raise(i, Exc("RequestException", "GET /status failed")) /\ UNCHANGED summary
           ELSE LET step == poll_step(reply.result)
                IN CASE step.next = "return" ->
                          /\ summary' = [summary EXCEPT ![i] = step.value]
                          /\ IF step.value.py = "str"
                             THEN Goto(i, "store")
                             ELSE Raise(i, Exc("TypeError", "object of type 'int' has no len()"))
                     [] step.next = "raise" -> Raise(i, step.exc) /\ UNCHANGED summary
                     [] OTHER -> Goto(i, "sleep") /\ UNCHANGED summary
    /\ UNCHANGED <<config, bucket_name, object_key, transcript_text, job_id, attempt,
                   output_key, s3>>

\* One status request of poll_runpod_job and the branch taken on its answer;
\* when the loop returns, the len(summary) of lambda_handler
PollRequest(i) ==
    /\ i \in invs
    /\ pc[i] = "poll"
    /\ range_has_next(attempt[i], MAX_POLLING_ATTEMPTS)
    /\ \E reply \in StatusReplies :
        /\ Log(i, [op |-> "status", url |-> RUNPOD_API_ENDPOINT \o "/status/" \o job_id[i],
                   http |-> reply.http, result |-> reply.result])
        /\ IF reply.http # "ok"
           THEN Goto(i, "sleep") /\ UNCHANGED summary
           ELSE LET step == poll_step(reply.result)
                IN CASE step.next = "return" ->
                          /\ summary' = [summary EXCEPT ![i] = step.value]
                          /\ IF step.value.py = "str"
                             THEN Goto(i, "store")
                             ELSE Raise(i, Exc("TypeError", "object of type 'int' has no len()"))
                     [] step.next = "raise" -> Raise(i, step.exc) /\ UNCHANGED summary
                     [] OTHER -> Goto(i, "sleep") /\ UNCHANGED summary
    /\ UNCHANGED <<config, bucket_name, object_key, transcript_text, job_id, attempt,
                   output_key, s3>>

\* time.sleep(POLLING_INTERVAL), of either branch, and the step of the loop
Sleep(i) ==
    /\ i \in invs
    /\ pc[i] = "sleep"
    /\ Log(i, [op |-> "sleep", secs |-> POLLING_INTERVAL])
    /\ attempt' = [attempt EXCEPT ![i] = @ + 1]
    /\ Goto(i, "poll")
    /\ UNCHANGED <<config, bucket_name, object_key, transcript_text, job_id, summary,
                   output_key, s3>>

\* The loop ran out: raise TimeoutError
PollTimeout(i) ==
    /\ i \in invs
    /\ pc[i] = "poll"
    /\ ~range_has_next(attempt[i], MAX_POLLING_ATTEMPTS)
    /\ Raise(i, Exc("TimeoutError", "Polling for Runpod job " \o job_id[i] \o " timed out"))
    /\ UNCHANGED <<config, bucket_name, object_key, transcript_text, job_id, attempt,
                   summary, output_key, calls, s3>>

\* put_object replaces what the bucket holds at the key
put_object(store, c) ==
    {o \in store : ~(o.bucket = c.bucket /\ o.key = c.key)}
        \cup {[bucket |-> c.bucket, key |-> c.key, body |-> c.body,
               content_type |-> c.content_type]}

\* A put_object that raised is tried once more
Store_retries_once(i) ==
    /\ i \in invs
    /\ pc[i] = "store"
    /\ LET c == upload_call(summary[i].v, bucket_name[i], object_key[i])
       IN /\ output_key' = [output_key EXCEPT ![i] = c.key]
          /\ \E out \in {"ok", "ClientError"} :
                /\ Log(i, [op |-> "put", bucket |-> c.bucket, key |-> c.key,
                           body |-> c.body, content_type |-> c.content_type, out |-> out])
                /\ IF out = "ok"
                   THEN /\ s3' = put_object(s3, c)
                        /\ pc' = [pc EXCEPT ![i] = "done"]
                        /\ UNCHANGED raised
                        /\ response' = [response EXCEPT ![i] =
                                success_response(bucket_name[i], object_key[i], c.key)]
                   ELSE /\ IF calls[i][Len(calls[i])].op = "put"
                           THEN Raise(i, Exc("ClientError", "An error occurred when calling the PutObject operation"))
                           ELSE Goto(i, "store")
                        /\ UNCHANGED s3
    /\ UNCHANGED <<config, bucket_name, object_key, transcript_text, job_id, attempt, summary>>

\* The object is stored also when put_object raises
Store_writes_on_error(i) ==
    /\ i \in invs
    /\ pc[i] = "store"
    /\ LET c == upload_call(summary[i].v, bucket_name[i], object_key[i])
       IN /\ output_key' = [output_key EXCEPT ![i] = c.key]
          /\ s3' = put_object(s3, c)
          /\ \E out \in {"ok", "ClientError"} :
                /\ Log(i, [op |-> "put", bucket |-> c.bucket, key |-> c.key,
                           body |-> c.body, content_type |-> c.content_type, out |-> out])
                /\ IF out = "ok"
                   THEN /\ pc' = [pc EXCEPT ![i] = "done"]
                        /\ UNCHANGED raised
                        /\ response' = [response EXCEPT ![i] =
                                success_response(bucket_name[i], object_key[i], c.key)]
                   ELSE Raise(i, Exc("ClientError", "An error occurred when calling the PutObject operation"))
    /\ UNCHANGED <<config, bucket_name, object_key, transcript_text, job_id, attempt, summary>>

\* generate_output_key, upload_summary_to_s3 and the return of the 200 envelope
Store(i) ==
    /\ i \in invs
    /\ pc[i] = "store"
    /\ LET c == upload_call(summary[i].v, bucket_name[i], object_key[i])
       IN /\ output_key' = [output_key EXCEPT ![i] = c.key]
          /\ \E out \in {"ok", "ClientError"} :
                /\ Log(i, [op |-> "put", bucket |-> c.bucket, key |-> c.key,
                           body |-> c.body, content_type |-> c.content_type, out |-> out])
                /\ IF out = "ok"
                   THEN /\ s3' = put_object(s3, c)
                        /\ pc' = [pc EXCEPT ![i] = "done"]
                        /\ UNCHANGED raised
                        /\ response' = [response EXCEPT ![i] =
                                success_response(bucket_name[i], object_key[i], c.key)]
                   ELSE /\ Raise(i, Exc("ClientError", "An error occurred when calling the PutObject operation"))
                        /\ UNCHANGED s3
    /\ UNCHANGED <<config, bucket_name, object_key, transcript_text, job_id, attempt, summary>>

Next ==
    \E i \in Invocations :
        \/ Parse(i)
        \/ Fetch(i)
        \/ Submit(i)
        \/ PollRequest(i)
        \/ Sleep(i)
        \/ PollTimeout(i)
        \/ Store(i)

----------------------------------------------------------------------------
(* Initial states *)

OtherRecord == Record("ok", <<"z">>, <<"z">>)

MalformedEvents ==
    {Event(r, <<>>) : r \in {"no_event", "absent", "null", "number", "str", "dict", "list"}}
        \cup {Event("list", <<Record(f, <<>>, <<>>)>>) : f \in {"null", "no_s3", "no_key"}}

EventsOf(buckets, keys, tails) ==
    {Event("list", <<Record("ok", b, k)>> \o t) : b \in buckets, k \in keys, t \in tails}

HandlerKeys == {<<"k", ".", "t">>, <<"k", "+">>, <<>>}
HandlerBuckets == {<<"b">>, <<>>}

Events ==
    MalformedEvents \cup EventsOf(HandlerBuckets, HandlerKeys, {<<>>, <<OtherRecord>>})

InitConfig ==
    /\ MAX_POLLING_ATTEMPTS \in 0..MaxAttempts
    /\ RUNPOD_API_KEY \in {None, "", "rp-key"}
    /\ RUNPOD_API_ENDPOINT \in {None, "", "https://api.runpod.ai/v2/ep"}

InitLocals ==
    /\ pc = [i \in invs |-> "parse"]
    /\ bucket_name = [i \in invs |-> <<>>]
    /\ object_key = [i \in invs |-> <<>>]
    /\ transcript_text = [i \in invs |-> <<>>]
    /\ job_id = [i \in invs |-> None]
    /\ attempt = [i \in invs |-> 0]
    /\ summary = [i \in invs |-> NoValue]
    /\ output_key = [i \in invs |-> <<>>]
    /\ raised = [i \in invs |-> NoExc]
    /\ response = [i \in invs |-> NoResponse]
    /\ calls = [i \in invs |-> <<>>]
    /\ s3 = {}

\* One invocation, any event, any stored object, any configuration
Init ==
    /\ InitConfig
    /\ invs = {1}
    /\ event \in [invs -> Events]
    /\ s3_object \in [invs -> Objects]
    /\ InitLocals

Spec == Init /\ [][Next]_vars

(* parse_s3_event on every short input: events whose first record holds    *)
(* any bucket name and any key, encoded or not. Only the parse runs.        *)

StringKeys == StringsUpTo({"k", "+", "%", "2", "B"}, MaxKeyLen)
StringBuckets == StringsUpTo({"b", "+"}, 2)

InitConfigSet ==
    /\ MAX_POLLING_ATTEMPTS = 1
    /\ RUNPOD_API_KEY = "rp-key"
    /\ RUNPOD_API_ENDPOINT = "https://api.runpod.ai/v2/ep"

InitStrings ==
    /\ InitConfigSet
    /\ invs = {1}
    /\ event \in [invs -> EventsOf(StringBuckets, StringKeys, {<<>>, <<OtherRecord>>})]
    /\ s3_object = [i \in invs |-> [state |-> "ok", body |-> <<"a">>]]
    /\ InitLocals

NextStrings == \E i \in Invocations : Parse(i)

SpecStrings == InitStrings /\ [][NextStrings]_vars

(* The handler on every short key made of a letter, '.' and '/', of a       *)
(* bucket that holds a transcript there.                                    *)

PathKeys == StringsUpTo({"k", ".", "/"}, MaxKeyLen) \ {<<>>}

InitKeys ==
    /\ InitConfigSet
    /\ invs = {1}
    /\ event \in [invs -> EventsOf({<<"b">>}, PathKeys, {<<>>})]
    /\ s3_object = [i \in invs |-> [state |-> "ok", body |-> <<"a">>]]
    /\ InitLocals

SpecKeys == InitKeys /\ [][Next]_vars

(* Two invocations running at once, on upload events that differ in the     *)
(* bucket or in the key.                                                    *)

ConcKeys == {<<"k", ".", "t">>, <<"k", ".", "u">>, <<"j", ".", "t">>}
ConcBuckets == {<<"b">>, <<"c">>}

InitConc ==
    /\ InitConfigSet
    /\ invs = {1, 2}
    /\ event \in [invs -> EventsOf(ConcBuckets, ConcKeys, {<<>>})]
    /\ event[1] # event[2]
    /\ s3_object = [i \in invs |-> [state |-> "ok", body |-> <<"a">>]]
    /\ InitLocals

SpecConc == InitConc /\ [][Next]_vars

(* The handler runs on one thread and every external call returns or fails, *)
(* so the step that follows the point an invocation stands at is taken.     *)

SpecFair == Init /\ [][Next]_vars /\ WF_vars(Next)

----------------------------------------------------------------------------
(* Reading the log of calls *)

Ops(i, op) == {p \in DOMAIN calls[i] : calls[i][p].op = op}
Count(i, op) == Cardinality(Ops(i, op))

\* Entry p is a status request that was answered with a decoded response
IsResponse(i, p) == calls[i][p].op = "status" /\ calls[i][p].http = "ok"
IsTransportFailure(i, p) == calls[i][p].op = "status" /\ calls[i][p].http # "ok"
RespondedWith(i, p, st) == IsResponse(i, p) /\ calls[i][p].result.status = st
NonTerminal(i, p) ==
    IsResponse(i, p) /\ calls[i][p].result.status \notin {"COMPLETED", "FAILED"}

StatusBefore(i, p) == {q \in Ops(i, "status") : q < p}

----------------------------------------------------------------------------
FailedMessage(result) ==
    "Runpod job failed: " \o (IF result.error = Absent THEN "Unknown error" ELSE result.error)

(* C2: a FAILED response, on any attempt, ends the handler at once with the *)
(* job's failure and its error detail ("Unknown error" when the response    *)
(* has no error field): it is the last call made, no sleep, no request and  *)
(* no write follows it.                                                     *)
Thm_C2 ==
    \A i \in invs : \A p \in DOMAIN calls[i] :
        RespondedWith(i, p, "FAILED")
        => /\ p = Len(calls[i])
           /\ pc[i] = "done"
           /\ raised[i] = Exc("Exception", FailedMessage(calls[i][p].result))
           /\ response[i].statusCode = 500
           /\ Count(i, "sleep") = Count(i, "status") - 1
           /\ summary[i] = NoValue

\* FAILED with error "boom" on the second attempt
Witness_C2 ==
    \E i \in invs :
        /\ Len(calls[i]) = 5
        /\ RespondedWith(i, 5, "FAILED")
        /\ calls[i][5].result.error = "boom"
        /\ raised[i].msg = "Runpod job failed: boom"
        /\ Count(i, "sleep") = 1

PollingOver(i) == pc[i] = "done" /\ job_id[i] # None

(* C3: when every status request is answered with a status other than       *)
(* COMPLETED and FAILED, polling ends with TimeoutError after exactly       *)
(* MAX_POLLING_ATTEMPTS requests and MAX_POLLING_ATTEMPTS sleeps, for every *)
(* MAX_POLLING_ATTEMPTS >= 0.                                               *)
Thm_C3 ==
    \A i \in invs :
        (PollingOver(i) /\ \A p \in Ops(i, "status") : NonTerminal(i, p))
        => /\ raised[i].type = "TimeoutError"
           /\ Count(i, "status") = MAX_POLLING_ATTEMPTS
           /\ Count(i, "sleep") = MAX_POLLING_ATTEMPTS
           /\ MAX_POLLING_ATTEMPTS > 0 => calls[i][Len(calls[i])].op = "sleep"
           /\ response[i].statusCode = 500

\* Three attempts, all still running, of both kinds of answer
Witness_C3 ==
    \E i \in invs :
        /\ PollingOver(i)
        /\ MAX_POLLING_ATTEMPTS = 3
        /\ Count(i, "status") = 3
        /\ Count(i, "sleep") = 3
        /\ \A p \in Ops(i, "status") : NonTerminal(i, p)
        /\ \E p \in Ops(i, "status") : calls[i][p].result.status = Absent
        /\ \E p \in Ops(i, "status") : calls[i][p].result.status = "IN_PROGRESS"
        /\ raised[i].type = "TimeoutError"

\* No attempt at all: the timeout is raised without a request
Reach_C3_zero ==
    \E i \in invs :
        PollingOver(i) /\ MAX_POLLING_ATTEMPTS = 0 /\ raised[i].type = "TimeoutError"

----------------------------------------------------------------------------
\* The stage an external call belongs to: FetchTranscript, SubmitJob, PollJob,
\* StoreSummary
StageOf(op) ==
    CASE op = "get" -> 2
      [] op = "run" -> 3
      [] op \in {"status", "sleep"} -> 4
      [] OTHER -> 5

\* Call p is one whose stage failed on it, and the kind of error it failed with
FailedCall(i, p) ==
    LET c == calls[i][p]
    IN CASE c.op = "get" -> c.out # ""
         [] c.op = "run" -> c.out # "id"
         [] c.op = "status" -> RespondedWith(i, p, "FAILED")
         [] c.op = "put" -> c.out # "ok"
         [] OTHER -> FALSE

ErrorTypeOf(i, p) ==
    LET c == calls[i][p]
    IN CASE c.op = "get" -> c.out
         [] c.op = "run" -> IF c.out = "no_id" THEN "ValueError" ELSE c.out
         [] c.op = "status" -> "Exception"
         [] OTHER -> c.out

(* C4: the calls of an invocation are made in the order of the stages, each *)
(* only after the stage before it succeeded: the read after the parse, the  *)
(* submission after the read returned the transcript, a status request      *)
(* after a job id was returned, the write after a COMPLETED answer gave a   *)
(* summary. A failed call is the last call made, and the invocation then    *)
(* returns 500 with the description of the error of that stage.             *)
Thm_C4 ==
    \A i \in invs :
        /\ \A p, q \in DOMAIN calls[i] :
                p < q => StageOf(calls[i][p].op) <= StageOf(calls[i][q].op)
        /\ \A p \in Ops(i, "get") :
                p = 1 /\ parse_raises(event[i]) = NoExc /\ pc[i] # "parse"
        /\ \A p \in Ops(i, "run") :
                /\ p = 2 /\ calls[i][1].op = "get" /\ calls[i][1].out = ""
                /\ calls[i][p].text = s3_object[i].body
        /\ \A p \in Ops(i, "status") :
                /\ calls[i][2].op = "run" /\ calls[i][2].out = "id"
                /\ job_id[i] \in JobIds
        /\ \A p \in Ops(i, "put") :
                /\ p > 1 /\ RespondedWith(i, p - 1, "COMPLETED")
                /\ summary[i].py = "str"
                /\ calls[i][p].body.text = summary[i].v
        /\ \A p \in DOMAIN calls[i] :
                FailedCall(i, p)
                => /\ p = Len(calls[i])
                   /\ pc[i] = "done"
                   /\ raised[i].type = ErrorTypeOf(i, p)
        /\ (pc[i] # "parse" /\ parse_raises(event[i]) # NoExc)
                => calls[i] = <<>> /\ pc[i] = "done" /\ raised[i] # NoExc
        /\ raised[i] # NoExc
                => /\ pc[i] = "done"
                   /\ response[i].statusCode = 500
                   /\ response[i].error = raised[i].msg
        /\ (pc[i] = "done" /\ raised[i] = NoExc)
                => /\ response[i].statusCode = 200
                   /\ calls[i][Len(calls[i])].op = "put"

\* All five stages ran, in order, and the last one failed
Witness_C4 ==
    \E i \in invs :
        /\ Len(calls[i]) = 6
        /\ calls[i][1].op = "get"
        /\ calls[i][2].op = "run"
        /\ calls[i][3].op = "status"
        /\ calls[i][4].op = "sleep"
        /\ calls[i][5].op = "status"
        /\ calls[i][6].op = "put" /\ calls[i][6].out = "ClientError"
        /\ response[i].statusCode = 500
        /\ response[i].error = "An error occurred when calling the PutObject operation"

\* A stage in the middle failed: the submission, after a successful read
Reach_C4_submit_failed ==
    \E i \in invs :
        /\ Len(calls[i]) = 2
        /\ calls[i][2].op = "run" /\ calls[i][2].out = "RequestException"
        /\ response[i].error = "POST /run failed"

Succeeded(i) == pc[i] = "done" /\ response[i].statusCode = 200

(* C5: an invocation that returns 200 has written exactly one object: to    *)
(* OUTPUT_BUCKET, at the output key of its input key, holding the text the  *)
(* job completed with, as text/plain; the envelope names the input place    *)
(* s3://<bucket>/<key> and that output place.                               *)
Thm_C5 ==
    \A i \in invs :
        Succeeded(i)
        => LET first == event[i].list[1]
               n == Len(calls[i])
               put == calls[i][n]
               output == calls[i][n - 1].result.output
           IN /\ Count(i, "put") = 1
              /\ put.op = "put" /\ put.out = "ok"
              /\ put.bucket = OUTPUT_BUCKET
              /\ put.key = generate_output_key(object_key[i])
              /\ \E m \in 0..Len(object_key[i]) :
                    put.key = <<"summaries/">> \o SubSeq(object_key[i], 1, m)
                                \o <<"_summary.txt">>
              /\ put.key = output_key[i]
              /\ put.content_type = "text/plain"
              /\ RespondedWith(i, n - 1, "COMPLETED")
              /\ output.shape \in {"dict_text", "str"} => put.body = utf8_encode(output.text)
              /\ put.body = utf8_encode(summary[i].v)
              /\ s3 = {[bucket |-> OUTPUT_BUCKET, key |-> put.key, body |-> put.body,
                        content_type |-> "text/plain"]}
              /\ object_key[i] = unquote_plus(first.key)
              /\ response[i].input_file = <<"s3://">> \o first.bucket \o <<"/">> \o object_key[i]
              /\ response[i].output_file = <<"s3://">> \o OUTPUT_BUCKET \o <<"/">> \o put.key

\* Key "k.t" of bucket "b", the job completes with the bare string "Y"
Witness_C5 ==
    \E i \in invs :
        /\ Succeeded(i)
        /\ event[i].list[1] = Record("ok", <<"b">>, <<"k", ".", "t">>)
        /\ calls[i][Len(calls[i]) - 1].result.output = Output("str", "Y")
        /\ s3 = {[bucket |-> <<"summaries">>, key |-> <<"summaries/", "k", "_summary.txt">>,
                  body |-> utf8_encode("Y"), content_type |-> "text/plain"]}

\* Every character is whitespace (the empty text too)
Blank(text) == \A k \in 1..Len(text) : text[k] \in {" ", "\n", "\t", "\r"}

Fetched(i) == Len(calls[i]) >= 1 /\ calls[i][1].op = "get" /\ calls[i][1].out = ""

(* C6: when the object read is empty or all whitespace, the invocation ends *)
(* with ValueError("Transcript file is empty.") and a 500 envelope, and the *)
(* read is the only call it ever makes: no submission, no status request,   *)
(* no write.                                                                *)
Thm_C6 ==
    \A i \in invs :
        (Fetched(i) /\ Blank(s3_object[i].body))
        => /\ Len(calls[i]) = 1
           /\ pc[i] = "done"
           /\ raised[i] = Exc("ValueError", "Transcript file is empty.")
           /\ response[i].statusCode = 500
           /\ s3 = {}

\* A transcript of a space and a line break
Witness_C6 ==
    \E i \in invs :
        /\ Fetched(i)
        /\ s3_object[i].body = <<" ", "\n">>
        /\ response[i].error = "Transcript file is empty."

\* The empty transcript
Reach_C6_empty ==
    \E i \in invs :
        Fetched(i) /\ s3_object[i].body = <<>> /\ response[i].statusCode = 500

\* The payload is empty or holds no record
RecordLess(ev) == ev.records # "list" \/ ev.list = <<>>

(* C7: for a payload that is empty or holds no record (no Records field, an *)
(* empty Records list, a Records value that is no list of records),         *)
(* parse_s3_event raises the ValueError "Invalid S3 event format" and the   *)
(* handler returns 500 without a read.                                      *)
Claim_C7 ==
    \A i \in invs :
        (pc[i] # "parse" /\ RecordLess(event[i]))
        => /\ raised[i].type = "ValueError"
           /\ response[i].statusCode = 500
           /\ calls[i] = <<>>

----------------------------------------------------------------------------
\* URL-decoding read from left to right: a plus sign is a space, a percent
\* sign followed by two hex digits is the character of that code, every
\* other character is itself
RECURSIVE UrlDecode(_)
UrlDecode(t) ==
    IF t = <<>> THEN <<>>
    ELSE IF t[1] = "+" THEN <<" ">> \o UrlDecode(Tail(t))
    ELSE IF t[1] = "%" /\ Len(t) >= 3 /\ IsHex(t[2]) /\ IsHex(t[3])
    THEN <<DecodeByte(16 * HexVal(t[2]) + HexVal(t[3]))>> \o UrlDecode(SubSeq(t, 4, Len(t)))
    ELSE <<t[1]>> \o UrlDecode(Tail(t))

WellFormedFirst(ev) == ev.records = "list" /\ ev.list # <<>> /\ ev.list[1].form = "ok"

Parsed(i) == pc[i] # "parse" /\ WellFormedFirst(event[i])

\* The invocation ended before its first call
ParseFailed(i) == pc[i] = "done" /\ calls[i] = <<>>

(* C8, as claimed: for a payload whose first record is well formed,         *)
(* parse_s3_event returns the first record's bucket and key, both           *)
(* URL-decoded with every plus sign decoded to a space.                     *)
Claim_C8 ==
    \A i \in invs :
        Parsed(i)
        => /\ ~ParseFailed(i)
           /\ bucket_name[i] = UrlDecode(event[i].list[1].bucket)
           /\ object_key[i] = UrlDecode(event[i].list[1].key)

(* C8, amended: for a payload whose first record is well formed,            *)
(* parse_s3_event returns the first record's bucket name as it stands and   *)
(* the first record's key URL-decoded with every plus sign decoded to a     *)
(* space; the records after the first have no part in it.                   *)
Thm_C8 ==
    \A i \in invs :
        Parsed(i)
        => /\ ~ParseFailed(i)
           /\ bucket_name[i] = event[i].list[1].bucket
           /\ object_key[i] = UrlDecode(event[i].list[1].key)

\* Bucket "b+", key "+%2B" (a space and a plus sign), and a second record
Witness_C8 ==
    \E i \in invs :
        /\ pc[i] = "fetch"
        /\ Len(event[i].list) = 2
        /\ event[i].list[1] = Record("ok", <<"b", "+">>, <<"+", "%", "2", "B">>)
        /\ bucket_name[i] = <<"b", "+">>
        /\ object_key[i] = <<" ", "+">>

\* The key's last '.' lies in its last '/'-separated component
HasExtension(key) ==
    \E d \in 1..Len(key) : key[d] = "." /\ \A j \in (d + 1)..Len(key) : key[j] \notin {".", "/"}

ExtensionStripped(key) ==
    IF HasExtension(key)
    THEN SubSeq(key, 1, (CHOOSE d \in 1..Len(key) :
                            key[d] = "." /\ \A j \in (d + 1)..Len(key) : key[j] # ".") - 1)
    ELSE key

(* C9: the output key is summaries/<base>_summary.txt, base being the input *)
(* key without its extension, and the whole input key when it has none,     *)
(* also when its only '.' is inside a directory component.                  *)
Claim_C9 ==
    \A i \in invs :
        output_key[i] # <<>>
        => output_key[i] = <<"summaries/">> \o ExtensionStripped(object_key[i])
                              \o <<"_summary.txt">>

\* The keys on which generate_output_key does what C9 says: "k.k" and "k"
Reach_C9_agree ==
    \E i \in invs :
        /\ object_key[i] \in {<<"k", ".", "k">>, <<"k">>}
        /\ output_key[i] = <<"summaries/", "k", "_summary.txt">>

Wrote(i) == \E p \in Ops(i, "put") : calls[i][p].out = "ok"

Place(i) == CHOOSE p \in Ops(i, "put") : calls[i][p].out = "ok"

(* C10: invocations running at once on different upload events never write *)
(* the same output object, so what storage holds at the output place of a   *)
(* successful invocation is the text its own job completed with.            *)
Claim_C10 ==
    /\ \A i, j \in invs :
            (i # j /\ Wrote(i) /\ Wrote(j))
            => <<calls[i][Place(i)].bucket, calls[i][Place(i)].key>>
                    # <<calls[j][Place(j)].bucket, calls[j][Place(j)].key>>
    /\ \A i \in invs :
            Succeeded(i)
            => \E o \in s3 :
                    /\ o.bucket = OUTPUT_BUCKET
                    /\ o.key = output_key[i]
                    /\ o.body = utf8_encode(summary[i].v)

\* Two invocations whose keys differ in more than the extension both succeed
\* and storage holds both summaries
Reach_C10_apart ==
    /\ invs = {1, 2}
    /\ \A i \in invs : Succeeded(i)
    /\ Cardinality(s3) = 2

----------------------------------------------------------------------------
\* The five stages of an invocation, read from the event and the log of calls
ParseSucceeded(i) == WellFormedFirst(event[i])
FetchSucceeded(i) ==
    /\ \E p \in Ops(i, "get") : calls[i][p].out = ""
    /\ ~Blank(transcript_text[i])
SubmitSucceeded(i) == \E p \in Ops(i, "run") : calls[i][p].out = "id"
PollSucceeded(i) ==
    \E p \in Ops(i, "status") :
        /\ RespondedWith(i, p, "COMPLETED")
        /\ calls[i][p].result.output.shape \notin {"null", "list"}
StoreSucceeded(i) == \E p \in Ops(i, "put") : calls[i][p].out = "ok"

AllStagesSucceeded(i) ==
    /\ ParseSucceeded(i)
    /\ FetchSucceeded(i)
    /\ SubmitSucceeded(i)
    /\ PollSucceeded(i)
    /\ StoreSucceeded(i)

\* What lambda_handler has returned, at each point of an invocation
Envelope_C11 ==
    \A i \in invs :
        /\ pc[i] # "done" => response[i] = NoResponse /\ raised[i] = NoExc
        /\ pc[i] = "done"
            => /\ response[i].statusCode \in {200, 500}
               /\ response[i].statusCode = 200 <=> AllStagesSucceeded(i)
               /\ response[i].statusCode = 500 <=> raised[i] # NoExc
        /\ StoreSucceeded(i) => pc[i] = "done"
        /\ attempt[i] <= MAX_POLLING_ATTEMPTS

(* C11: every invocation comes to its end, for every event and every        *)
(* outcome of the external calls, and has then returned an envelope whose   *)
(* statusCode is 200 or 500: every exception raised inside is turned into   *)
(* the 500 envelope, none leaves the handler, and the statusCode is 200     *)
(* exactly when the parse, the read, the submission, the polling and the    *)
(* write all succeeded.                                                     *)
Thm_C11 ==
    /\ []Envelope_C11
    /\ <>(\A i \in invs : pc[i] = "done")

\* The longest run: every status request of the budget fails or finds the
\* job still running, and the invocation ends in the 500 envelope
Witness_C11 ==
    \E i \in invs :
        /\ pc[i] = "done"
        /\ MAX_POLLING_ATTEMPTS = MaxAttempts
        /\ Count(i, "status") = MaxAttempts
        /\ \E p \in Ops(i, "status") : IsTransportFailure(i, p)
        /\ response[i].statusCode = 500
        /\ response[i].error = "Polling for Runpod job job-1 timed out"

\* All five stages succeeded and the 200 envelope was returned
Reach_C11_ok ==
    \E i \in invs : pc[i] = "done" /\ AllStagesSucceeded(i) /\ response[i].statusCode = 200

----------------------------------------------------------------------------
\* The text a COMPLETED response is to give: the text field of a mapping that
\* has one, a bare string itself, the serialization of any other output
TextOf(output) ==
    CASE output.shape = "dict_text" -> PyStr(output.text)
      [] output.shape = "dict_text_int" -> PyInt(output.text)
      [] output.shape = "str" -> PyStr(output.text)
      [] OTHER -> PyStr(json_dumps(output))

(* C12: a COMPLETED response ends the polling in success whatever the shape *)
(* of its output: poll_runpod_job returns the text field of a mapping that  *)
(* has one, a bare string itself, and the serialization of the whole output *)
(* otherwise (a mapping without text, no output, null, a list); it raises   *)
(* nothing.                                                                 *)
Claim_C12 ==
    \A i \in invs :
        \A p \in Ops(i, "status") :
            RespondedWith(i, p, "COMPLETED")
            => /\ summary[i] = TextOf(calls[i][p].result.output)
               /\ raised[i].type \notin {"AttributeError", "Exception", "TimeoutError"}

\* The fallback where it works: a mapping without text, and no output at all,
\* are returned serialized
Reach_C12_fallback ==
    \E i \in invs :
        \E p \in Ops(i, "status") :
            /\ RespondedWith(i, p, "COMPLETED")
            /\ calls[i][p].result.output.shape = "dict_notext"
            /\ summary[i] = PyStr("{'tokens': 7}")
            /\ pc[i] = "store"

----------------------------------------------------------------------------
\* The seconds slept by the sleeps of a log
RECURSIVE SecondsSlept(_)
SecondsSlept(log) ==
    IF log = <<>> THEN 0
    ELSE (IF Head(log).op = "sleep" THEN Head(log).secs ELSE 0) + SecondsSlept(Tail(log))

(* C13: at every point of every invocation, whatever the status responses   *)
(* and transport failures, at most MAX_POLLING_ATTEMPTS status requests     *)
(* have been made, no more sleeps than status requests, every sleep of      *)
(* POLLING_INTERVAL seconds; so the time slept is at most                   *)
(* MAX_POLLING_ATTEMPTS x POLLING_INTERVAL, which is 200 for the defaults   *)
(* 20 and 10.                                                               *)
Thm_C13 ==
    /\ \A i \in invs :
            /\ Count(i, "status") <= MAX_POLLING_ATTEMPTS
            /\ Count(i, "sleep") <= Count(i, "status")
            /\ \A p \in Ops(i, "sleep") :
                    /\ calls[i][p].secs = POLLING_INTERVAL
                    /\ p > 1 /\ calls[i][p - 1].op = "status"
            /\ SecondsSlept(calls[i]) = Count(i, "sleep") * POLLING_INTERVAL
            /\ SecondsSlept(calls[i]) <= MAX_POLLING_ATTEMPTS * POLLING_INTERVAL
    /\ DEFAULT_MAX_POLLING_ATTEMPTS * POLLING_INTERVAL = 200

\* The whole budget is used, on transport failures and on answers alike: the
\* time slept reaches the bound
Witness_C13 ==
    \E i \in invs :
        /\ MAX_POLLING_ATTEMPTS = MaxAttempts
        /\ Count(i, "status") = MaxAttempts
        /\ Count(i, "sleep") = MaxAttempts
        /\ \E p \in Ops(i, "status") : IsTransportFailure(i, p)
        /\ \E p \in Ops(i, "status") : NonTerminal(i, p)
        /\ SecondsSlept(calls[i]) = MaxAttempts * POLLING_INTERVAL

----------------------------------------------------------------------------
\* The status requests made up to call p
StatusUpTo(i, p) == {q \in Ops(i, "status") : q <= p}

(* C14: a status request that fails at transport level does not end the     *)
(* polling. It uses up one attempt of the budget and is followed by one     *)
(* sleep of POLLING_INTERVAL; after that sleep, if fewer than               *)
(* MAX_POLLING_ATTEMPTS requests were made, a new status request is made,   *)
(* and a COMPLETED or FAILED answer to it ends the polling as it does       *)
(* without the failure. When all MAX_POLLING_ATTEMPTS requests fail at      *)
(* transport level the polling ends in TimeoutError: the transport error    *)
(* is never what the invocation fails with.                                 *)
Thm_C14 ==
    \A i \in invs :
        /\ \A p \in Ops(i, "status") :
            IsTransportFailure(i, p)
            => LET n == Len(calls[i])
                   made == Cardinality(StatusUpTo(i, p))
               IN /\ p = n => pc[i] = "sleep" /\ raised[i] = NoExc /\ attempt[i] = made - 1
                  /\ p < n => calls[i][p + 1] = [op |-> "sleep", secs |-> POLLING_INTERVAL]
                  /\ p + 1 = n
                     => /\ attempt[i] = made
                        /\ made < MAX_POLLING_ATTEMPTS
                           => pc[i] = "poll" /\ raised[i] = NoExc /\ ENABLED PollRequest(i)
                        /\ made >= MAX_POLLING_ATTEMPTS
                           => \/ pc[i] = "poll" /\ ENABLED PollTimeout(i) /\ ~ENABLED PollRequest(i)
                              \/ pc[i] = "done" /\ raised[i].type = "TimeoutError"
                  /\ p + 1 < n
                     => /\ calls[i][p + 2].op = "status"
                        /\ made < MAX_POLLING_ATTEMPTS
                        /\ RespondedWith(i, p + 2, "FAILED")
                           => /\ n = p + 2 /\ pc[i] = "done"
                              /\ raised[i] = Exc("Exception", FailedMessage(calls[i][p + 2].result))
                        /\ (RespondedWith(i, p + 2, "COMPLETED")
                                /\ calls[i][p + 2].result.output.shape \in {"dict_text", "str"})
                           => /\ summary[i] = PyStr(calls[i][p + 2].result.output.text)
                              /\ Count(i, "sleep") = Cardinality(StatusUpTo(i, p))
                              /\ pc[i] \in {"store", "done"}
                              /\ n > p + 2 => calls[i][p + 3].op = "put"
        /\ raised[i].type = "RequestException" => Count(i, "status") = 0
        /\ (PollingOver(i) /\ MAX_POLLING_ATTEMPTS > 0
                /\ Count(i, "status") = MAX_POLLING_ATTEMPTS
                /\ \A p \in Ops(i, "status") : IsTransportFailure(i, p))
           => /\ raised[i].type = "TimeoutError"
              /\ response[i].statusCode = 500

\* The first status request fails at transport level, the second one, after
\* one sleep, finds the job COMPLETED, and the summary is stored
Witness_C14 ==
    \E i \in invs :
        /\ Len(calls[i]) = 6
        /\ IsTransportFailure(i, 3)
        /\ calls[i][4].op = "sleep"
        /\ RespondedWith(i, 5, "COMPLETED")
        /\ calls[i][6].op = "put" /\ calls[i][6].out = "ok"
        /\ response[i].statusCode = 200

\* Every request of the budget fails at transport level: TimeoutError
Reach_C14_all_fail ==
    \E i \in invs :
        /\ PollingOver(i)
        /\ MAX_POLLING_ATTEMPTS = 3
        /\ Count(i, "status") = 3
        /\ \A p \in Ops(i, "status") : IsTransportFailure(i, p)
        /\ raised[i].type = "TimeoutError"

----------------------------------------------------------------------------
\* The calls the code makes: reads, submissions, status requests, sleeps and
\* writes. A cancellation of the job or a deletion would be another kind.
CallKinds == {"get", "run", "status", "sleep", "put"}

FailureExit(i) == pc[i] = "done" /\ response[i].statusCode = 500

(* C15: when an invocation has returned the 500 envelope, whichever stage   *)
(* failed, the failed write included, it has written no object to storage   *)
(* and has made no call that undoes anything (no cancellation of the job,   *)
(* no deletion): what it leaves behind is at most the one job it submitted. *)
Thm_C15 ==
    \A i \in invs :
        FailureExit(i)
        => /\ ~Wrote(i)
           /\ s3 = {}
           /\ \A p \in DOMAIN calls[i] : calls[i][p].op \in CallKinds
           /\ Count(i, "run") <= 1
           /\ \A p \in Ops(i, "put") : p = Len(calls[i]) /\ calls[i][p].out = "ClientError"
           /\ \A p \in Ops(i, "run") :
                    calls[i][p].out = "id"
                    => job_id[i] \in JobIds /\ (p = Len(calls[i]) \/ calls[i][p + 1].op = "status")

\* The write fails after the job was submitted and completed: the job stays
\* submitted, nothing is stored
Witness_C15 ==
    \E i \in invs :
        /\ FailureExit(i)
        /\ Count(i, "run") = 1
        /\ job_id[i] = "job-2"
        /\ calls[i][Len(calls[i])].op = "put"
        /\ raised[i].type = "ClientError"
        /\ s3 = {}

----------------------------------------------------------------------------
\* A setting that is missing from the environment, or empty
Unset(setting) == setting \in {None, ""}

SubmitCalled(i) == Fetched(i) /\ ~Blank(s3_object[i].body) /\ pc[i] # "submit"

(* C16: when RUNPOD_API_KEY or RUNPOD_API_ENDPOINT is unset, the submission *)
(* fails with the ValueError that names the missing setting before any      *)
(* request is sent to the job API: no submission request, no status         *)
(* request after it; the invocation returns the 500 envelope and has        *)
(* written nothing to storage.                                              *)
Thm_C16 ==
    \A i \in invs :
        (Unset(RUNPOD_API_KEY) \/ Unset(RUNPOD_API_ENDPOINT))
        => /\ Count(i, "run") = 0
           /\ Count(i, "status") = 0
           /\ Count(i, "sleep") = 0
           /\ Count(i, "put") = 0
           /\ job_id[i] = None
           /\ s3 = {}
           /\ pc[i] \in {"parse", "fetch", "submit", "done"}
           /\ pc[i] = "done" => response[i].statusCode = 500
           /\ SubmitCalled(i)
              => /\ pc[i] = "done"
                 /\ calls[i] = <<[op |-> "get", bucket |-> bucket_name[i],
                                  key |-> object_key[i], out |-> ""]>>
                 /\ raised[i] = Exc("ValueError",
                                    IF Unset(RUNPOD_API_KEY) THEN "Runpod API key is not set."
                                    ELSE "Runpod API endpoint is not set.")
                 /\ response[i].error = raised[i].msg

\* The key is set, the endpoint is not: the submission fails on the endpoint
Witness_C16 ==
    \E i \in invs :
        /\ RUNPOD_API_KEY = "rp-key"
        /\ RUNPOD_API_ENDPOINT = None
        /\ SubmitCalled(i)
        /\ Len(calls[i]) = 1
        /\ response[i].statusCode = 500
        /\ response[i].error = "Runpod API endpoint is not set."

\* The key is set to the empty string
Reach_C16_key ==
    \E i \in invs :
        /\ RUNPOD_API_KEY = ""
        /\ SubmitCalled(i)
        /\ response[i].error = "Runpod API key is not set."

----------------------------------------------------------------------------
(* C17: an invocation makes at most one read of storage, at most one job    *)
(* submission and at most one write to storage, whatever the number of      *)
(* records of the event and the outcomes of the calls: no stage is run a    *)
(* second time. Only the status request is repeated, and every status       *)
(* request asks for the one job id the submission returned.                 *)
Thm_C17 ==
    \A i \in invs :
        /\ Count(i, "get") <= 1
        /\ Count(i, "run") <= 1
        /\ Count(i, "put") <= 1
        /\ \A p \in Ops(i, "get") :
                /\ calls[i][p].bucket = event[i].list[1].bucket
                /\ calls[i][p].key = unquote_plus(event[i].list[1].key)
        /\ \A p \in Ops(i, "status") :
                /\ job_id[i] \in JobIds
                /\ calls[i][p].url = RUNPOD_API_ENDPOINT \o "/status/" \o job_id[i]
        /\ \A p, q \in Ops(i, "status") : calls[i][p].url = calls[i][q].url
        /\ Len(calls[i]) <= 2 + 2 * MAX_POLLING_ATTEMPTS + 1

\* An event of two records, every stage run, the status of job-2 asked
\* MaxAttempts times: one read, one submission, one write
Witness_C17 ==
    \E i \in invs :
        /\ Len(event[i].list) = 2
        /\ pc[i] = "done"
        /\ Count(i, "get") = 1
        /\ Count(i, "run") = 1
        /\ Count(i, "status") = MaxAttempts
        /\ Count(i, "put") = 1
        /\ \A p \in Ops(i, "status") :
                calls[i][p].url = "https://api.runpod.ai/v2/ep/status/job-2"

----------------------------------------------------------------------------
\* parse_s3_event returned a bucket name and a key
ParseReturned(i) == pc[i] # "parse" /\ ~ParseFailed(i)

EmptyFirst(ev) ==
    WellFormedFirst(ev) /\ (ev.list[1].bucket = <<>> \/ ev.list[1].key = <<>>)

(* C18: what parse_s3_event returns comes from an event of at least one     *)
(* record and is a non-empty bucket name and a non-empty key; an event      *)
(* whose first record names an empty bucket or an empty key is rejected by  *)
(* the parse, and get_transcript_from_s3 is never called for it.            *)
Claim_C18 ==
    \A i \in invs :
        /\ ParseReturned(i)
           => /\ event[i].records = "list" /\ Len(event[i].list) >= 1
              /\ bucket_name[i] # <<>>
              /\ object_key[i] # <<>>
        /\ (EmptyFirst(event[i]) /\ pc[i] # "parse")
           => /\ ParseFailed(i)
              /\ raised[i].type = "ValueError"
              /\ Count(i, "get") = 0

\* The part of C18 the code does keep: the parse returns only for an event
\* that has a first record
Reach_C18_record ==
    \E i \in invs :
        /\ ParseReturned(i)
        /\ Len(event[i].list) >= 1
        /\ bucket_name[i] # <<>>
        /\ object_key[i] # <<>>
        /\ Count(i, "get") = 1

====
